---- MODULE Spec2Model ----
(***************************************************************************)
(* The Slack returner (salt/returners/slack_returner.py): option           *)
(* resolution, message formatting, the one outbound request of _query and  *)
(* the mapping of its outcome to the value returner hands back.            *)
(***************************************************************************)
EXTENDS Integers, Sequences, FiniteSets, TLC

VARIABLES
    cfg,        \* the configuration blocks the minion holds (read-only)
    pc,         \* "idle", "awaiting" (request in flight), "done", "raised"
    caller,     \* "none", "returner" or "_query" (a direct call of _query)
    ret,        \* the job result handed to returner
    options,    \* _options as resolved by _get_options
    function,   \* the Slack api function _query performs
    requests,   \* the requests issued by the current invocation, in order
    outcome,    \* what requests.request produced for the request in flight
    result,     \* the value _query returned
    returned,   \* the value returner returned
    exc,        \* the exception that left the invocation, "none" if none
    log,        \* the log.error lines of the current invocation
    ncalls      \* invocations started so far

vars == <<cfg, pc, caller, ret, options, function, requests, outcome, result,
          returned, exc, log, ncalls>>

\* Number of invocations one behaviour holds.
MaxCalls == 2

(***************************************************************************)
(* Python values: None, booleans, strings, the empty list, exceptions and  *)
(* Response objects are kept apart by a tag.                               *)
(***************************************************************************)
None == [t |-> "none"]
Unset == [t |-> "unset"]
Bool(b) == [t |-> "bool", b |-> b]
Str(s) == [t |-> "str", s |-> s]
EmptyList == [t |-> "list"]
ExcValue(e) == [t |-> "exc", e |-> e]
ResponseValue(r) == [t |-> "response", r |-> r]

\* bool(v), as "not v" and "if v" evaluate it.
Truthy(v) ==
    CASE v.t = "none" -> FALSE
      [] v.t = "bool" -> v.b
      [] v.t = "str" -> v.s /= ("")
      [] v.t = "list" -> FALSE
      [] OTHER -> TRUE

\* str(v), what '{0}'.format(v) renders.
PyStr(v) ==
    CASE v.t = "none" -> "None"
      [] v.t = "bool" -> IF v.b THEN "True" ELSE "False"
      [] v.t = "str" -> v.s
      [] v.t = "list" -> "[]"
      [] OTHER -> "<object>"

\* pprint.pformat(v): the repr of a short value, strings quoted.
Pformat(v) ==
    CASE v.t = "str" -> "'" \o v.s \o "'"
      [] OTHER -> PyStr(v)

\* dict.get(k) on a mapping held as a function.
Get(d, k) == IF k \in DOMAIN d THEN d[k] ELSE None

(***************************************************************************)
(* Configuration and option resolution.                                    *)
(***************************************************************************)
\* A configuration block holds a value per key, None where the key is not
\* set.
PrimaryBlocks ==
    [channel : {None, Str("#ops"), Str("")},
     username : {None, Str("bot")},
     as_user : {None, Bool(TRUE), Bool(FALSE)},
     api_key : {None, Str("X")},
     profile : {None, Str("slack_profile")}]

AlternativeBlocks ==
    [channel : {None},
     username : {None},
     as_user : {None},
     api_key : {None, Str("A")},
     profile : {None, Str("slack_profile")}]

ProfileBlocks == [api_key : {Str("P")}]

Configs ==
    [primary : PrimaryBlocks, alternative : AlternativeBlocks,
     slack_profile : ProfileBlocks]

\* The job results handed to returner; ret_config selects the alternative block.
JobResults ==
    [id : {None, Str("m1")},
     fun : {Str("test.ping")},
     fun_args : {EmptyList},
     jid : {Str("J1")},
     return : {Bool(TRUE), Str("ok")},
     ret_config : {None, Str("alternative")}]

NoJob ==
    [id |-> None, fun |-> None, fun_args |-> None, jid |-> None,
     return |-> None, ret_config |-> None]

NoOptions ==
    [slack_profile |-> None, channel |-> None, username |-> None,
     as_user |-> None, api_key |-> None]

\* defaults with the channel's key misnamed.
defaults_Misnamed == [room |-> Str("#general")]

\* _get_options: the defaults, the option names and the profile's names.
defaults == [channel |-> Str("#general")]

attrs ==
    [slack_profile |-> "profile", channel |-> "channel",
     username |-> "username", as_user |-> "as_user", api_key |-> "api_key"]

profile_attr == "slack_profile"

profile_attrs ==
    [from_jid |-> "from_jid", api_key |-> "api_key", api_version |-> "api_key"]

\* The first value of a sequence of layers that is set, None when none is.
FirstSet(layers) ==
    IF \E i \in 1..Len(layers) : layers[i] /= None
    THEN layers[CHOOSE i \in 1..Len(layers) :
                    /\ layers[i] /= None
                    /\ \A j \in 1..(i - 1) : layers[j] = None]
    ELSE None

\* salt.returners.get_returner_options: per option, the selected alternative
\* block, then the referenced profile block, then the primary block, then
\* the defaults.
get_returner_options(c, r, attrs_, profile_attr_, profile_attrs_, defaults_) ==
    LET selected == r.ret_config /= None
        FromAlt(k) == IF selected THEN c.alternative[k] ELSE None
        profile_name == FirstSet(<<FromAlt(attrs_[profile_attr_]),
                                   c.primary[attrs_[profile_attr_]]>>)
        FromProfile(o) ==
            IF /\ profile_name = Str("slack_profile")
               /\ o \in DOMAIN profile_attrs_
               /\ profile_attrs_[o] \in DOMAIN c.slack_profile
            THEN c.slack_profile[profile_attrs_[o]]
            ELSE None
        FromDefaults(o) == Get(defaults_, o)
    IN  [o \in DOMAIN attrs_ |->
            FirstSet(<<FromAlt(attrs_[o]), FromProfile(o),
                       c.primary[attrs_[o]], FromDefaults(o)>>)]

_get_options(c, r) ==
    get_returner_options(c, r, attrs, profile_attr, profile_attrs, defaults)

(***************************************************************************)
(* URLs and response bodies.                                               *)
(***************************************************************************)
\* A URL is an origin and the segments of its path; a trailing "" segment
\* is a trailing slash.  A reference is absolute ("/api/") or relative.
api_url == [origin |-> "https://slack.com", segs |-> <<>>]

\* urljoin(base, ref): an absolute path replaces the base's path, a relative
\* one replaces its last segment.
_urljoin(base, ref) ==
    IF ref.abs
    THEN [origin |-> base.origin, segs |-> ref.segs]
    ELSE [origin |-> base.origin,
          segs |-> (IF Len(base.segs) = 0 THEN <<>>
                    ELSE SubSeq(base.segs, 1, Len(base.segs) - 1)) \o ref.segs]

\* A body is its text as a sequence of tokens: "{" k1 v1 ... kn vn "}" is a
\* JSON object, "[" "]" the empty JSON array, anything else is not JSON.
IsJsonObject(content) ==
    /\ Len(content) >= 2
    /\ content[1] = "{"
    /\ content[Len(content)] = "}"
    /\ Len(content) % 2 = 0
    /\ \A i \in 2..(Len(content) - 1) : content[i] \notin {"{", "}", "[", "]"}

IsJsonArray(content) == content = <<"[", "]">>

\* Response.json(): the parsed value, or ValueError.
Json(content) ==
    IF IsJsonObject(content)
    THEN LET keyAt == {i \in 2..(Len(content) - 1) : i % 2 = 0}
             keys == {content[i] : i \in keyAt}
             last(k) == CHOOSE i \in keyAt :
                            /\ content[i] = k
                            /\ \A j \in keyAt : content[j] = k => j <= i
         IN  [raises |-> FALSE, type |-> "object",
              obj |-> [k \in keys |-> Str(content[last(k) + 1])]]
    ELSE IF IsJsonArray(content)
    THEN [raises |-> FALSE, type |-> "array", obj |-> <<>>]
    ELSE [raises |-> TRUE, type |-> "ValueError", obj |-> <<>>]

Bodies ==
    {<<"{", "error", "not_authed", "}">>,
     <<"{", "ok", "true", "channel", "C123", "}">>,
     <<"{", "channels", "c1", "}">>,
     <<"{", "members", "u1", "}">>,
     <<"[", "]">>,
     <<"<html>">>,
     <<"error">>,
     <<>>}

\* http_client.OK and http_client.NO_CONTENT
OK == 200
NO_CONTENT == 204

\* What requests.request produces: a Response, a ConnectionError, or another
\* of its exceptions (a read timeout, too many redirects).  A 204 answer
\* has no body.
Responses ==
    [kind : {"response"}, status_code : {OK, 500}, content : Bodies]
    \cup [kind : {"response"}, status_code : {NO_CONTENT}, content : {<<>>}]

Failures ==
    {[kind |-> "ConnectionError", status_code |-> 0, content |-> <<>>],
     [kind |-> "ReadTimeout", status_code |-> 0, content |-> <<>>]}

NoOutcome == [kind |-> "none", status_code |-> 0, content |-> <<>>]

\* The interpreters the module runs under: a chunk of a Response's content
\* is a str under Python 2 and bytes under Python 3.
PyVersions == {"py2", "py3"}

\* 'error' in result, on a Response object: membership over the chunks of
\* iter_content, the whole of a short non-empty body being one chunk.
ResponseContains(r, s, py) ==
    /\ py = "py2"
    /\ r.content = <<s>>

(***************************************************************************)
(* _query                                                                  *)
(***************************************************************************)
\* slack_functions with the payload fields of rooms and users exchanged.
slack_functions_Swapped ==
    [rooms |-> [request |-> "channels.list", response |-> "members"],
     users |-> [request |-> "users.list", response |-> "channels"],
     message |-> [request |-> "chat.postMessage", response |-> "channel"]]

slack_functions ==
    [rooms |-> [request |-> "channels.list", response |-> "channels"],
     users |-> [request |-> "users.list", response |-> "members"],
     message |-> [request |-> "chat.postMessage", response |-> "channel"]]

Functions == DOMAIN slack_functions

\* The dict _query hands back: ret = {'message': ..., 'res': ...}.
RetDict(message, res) == [t |-> "dict", message |-> message, res |-> res]

\* The url _query requests for a function.
QueryUrl(fn) ==
    LET base_url == _urljoin(api_url, [abs |-> TRUE, segs |-> <<"api", "">>])
        path == slack_functions[fn].request
    IN  _urljoin(base_url, [abs |-> FALSE, segs |-> <<path>>])

\* The arguments of the one requests.request call.
QueryRequest(fn, api_key, method, data) ==
    [method |-> method, url |-> QueryUrl(fn), params |-> [token |-> api_key],
     data |-> data, verify |-> TRUE]

Returns(v) == [raises |-> FALSE, exc |-> "none", value |-> v]
Raises(e) == [raises |-> TRUE, exc |-> e, value |-> Unset]

\* What _query does with the outcome of its request: the value it returns
\* or the exception that leaves it.
QueryOutcome(fn, out, py) ==
    IF out.kind = "ConnectionError"
    THEN Returns(RetDict(ExcValue("ConnectionError"), FALSE))
    ELSE IF out.kind /= "response"
    THEN Raises(out.kind)
    ELSE IF out.status_code = OK
    THEN LET parsed == Json(out.content)
             response == slack_functions[fn].response
         IN  IF parsed.raises
             THEN Raises("ValueError")
             ELSE IF parsed.type = "array"
             THEN Raises("AttributeError")
             ELSE IF "error" \in DOMAIN parsed.obj
             THEN Returns(RetDict(parsed.obj["error"], FALSE))
             ELSE Returns(RetDict(Get(parsed.obj, response), TRUE))
    ELSE IF out.status_code = NO_CONTENT
    THEN Returns(Bool(TRUE))
    ELSE IF ResponseContains(out, "error", py)
    THEN Raises("TypeError")
    ELSE Returns(RetDict(ResponseValue(out), TRUE))

(***************************************************************************)
(* _post_message and returner                                              *)
(***************************************************************************)
\* The backquote character (a string literal cannot end on one), and the
\* fence of three that opens and closes pre-formatted text.
Backquote == SubSeq("`'", 1, 1)
Fence == Backquote \o Backquote \o Backquote

\* parameters, the data of the request _post_message makes.
PostParameters(channel, message, username, as_user) ==
    [channel |-> channel, username |-> username, as_user |-> as_user,
     text |-> Fence \o message \o Fence]

\* if result: return True, else: return False
PostResult(res) == Bool(Truthy(res))

\* The options returner requires, in the order it tests them.
Required == <<"channel", "username", "as_user", "api_key">>

\* FirstMissing testing presence (is None) instead of truthiness.
FirstMissing_Presence(o) ==
    IF \E i \in 1..Len(Required) : o[Required[i]] = None
    THEN Required[CHOOSE i \in 1..Len(Required) :
                      /\ o[Required[i]] = None
                      /\ \A j \in 1..(i - 1) : o[Required[j]] /= None]
    ELSE ("")

\* FirstMissing without the last test, that of api_key.
FirstMissing_NoApiKey(o) ==
    IF \E i \in 1..(Len(Required) - 1) : ~Truthy(o[Required[i]])
    THEN Required[CHOOSE i \in 1..(Len(Required) - 1) :
                      /\ ~Truthy(o[Required[i]])
                      /\ \A j \in 1..(i - 1) : Truthy(o[Required[j]])]
    ELSE ("")

\* The first required option that is falsy, the empty name when none is.
FirstMissing(o) ==
    IF \E i \in 1..Len(Required) : ~Truthy(o[Required[i]])
    THEN Required[CHOOSE i \in 1..Len(Required) :
                      /\ ~Truthy(o[Required[i]])
                      /\ \A j \in 1..(i - 1) : Truthy(o[Required[j]])]
    ELSE ("")

MissingLog(name) == "slack." \o name \o " not defined in salt config"

\* Message with the lines ended by a bare line feed.
Message_BareLF(r) ==
    "id: " \o PyStr(r.id) \o "\n"
    \o "function: " \o PyStr(r.fun) \o "\n"
    \o "function args: " \o PyStr(r.fun_args) \o "\n"
    \o "jid: " \o PyStr(r.jid) \o "\n"
    \o "return: " \o Pformat(r.return) \o "\n"

\* message, the five lines returner formats from the job result.
Message(r) ==
    "id: " \o PyStr(r.id) \o "\r\n"
    \o "function: " \o PyStr(r.fun) \o "\r\n"
    \o "function args: " \o PyStr(r.fun_args) \o "\r\n"
    \o "jid: " \o PyStr(r.jid) \o "\r\n"
    \o "return: " \o Pformat(r.return) \o "\r\n"

(***************************************************************************)
(* The state machine.                                                      *)
(***************************************************************************)
Init ==
    /\ cfg \in Configs
    /\ pc = "idle"
    /\ caller = "none"
    /\ ret = NoJob
    /\ options = NoOptions
    /\ function = "none"
    /\ requests = <<>>
    /\ outcome = NoOutcome
    /\ result = Unset
    /\ returned = Unset
    /\ exc = "none"
    /\ log = <<>>
    /\ ncalls = 0

CanCall == pc \in {"idle", "done", "raised"} /\ ncalls < MaxCalls

\* returner(ret) with a required option missing: logs and returns.
ReturnerAbort(r) ==
    LET _options == _get_options(cfg, r)
    IN  /\ CanCall
        /\ FirstMissing(_options) /= ("")
        /\ pc' = "done"
        /\ caller' = "returner"
        /\ ret' = r
        /\ options' = _options
        /\ function' = "none"
        /\ requests' = <<>>
        /\ outcome' = NoOutcome
        /\ result' = Unset
        /\ returned' = None
        /\ exc' = "none"
        /\ log' = <<MissingLog(FirstMissing(_options))>>
        /\ ncalls' = ncalls + 1
        /\ UNCHANGED cfg

\* returner(ret) up to the request _post_message makes through _query.
ReturnerSend(r) ==
    LET _options == _get_options(cfg, r)
        parameters == PostParameters(_options.channel, Message(r),
                                     _options.username, _options.as_user)
    IN  /\ CanCall
        /\ FirstMissing(_options) = ""
        /\ pc' = "awaiting"
        /\ caller' = "returner"
        /\ ret' = r
        /\ options' = _options
        /\ function' = "message"
        /\ requests' = <<QueryRequest("message", _options.api_key, "POST",
                                      parameters)>>
        /\ outcome' = NoOutcome
        /\ result' = Unset
        /\ returned' = Unset
        /\ exc' = "none"
        /\ log' = <<>>
        /\ ncalls' = ncalls + 1
        /\ UNCHANGED cfg

\* _query(function) called without an api key where the lookup of the
\* 'slack' option raises NameError, KeyError or AttributeError.
QueryNoKey(fn) ==
    /\ CanCall
    /\ pc' = "done"
    /\ caller' = "_query"
    /\ ret' = NoJob
    /\ options' = NoOptions
    /\ function' = fn
    /\ requests' = <<>>
    /\ outcome' = NoOutcome
    /\ result' = RetDict(Str("No Slack api key found."), FALSE)
    /\ returned' = Unset
    /\ exc' = "none"
    /\ log' = <<"No Slack api key found.">>
    /\ ncalls' = ncalls + 1
    /\ UNCHANGED cfg

\* _query(function, api_key) up to its request; without an api key the one
\* the 'slack' option holds (looked_up) is used.
QuerySend(fn, api_key, looked_up) ==
    /\ CanCall
    /\ pc' = "awaiting"
    /\ caller' = "_query"
    /\ ret' = NoJob
    /\ options' = NoOptions
    /\ function' = fn
    /\ requests' = <<QueryRequest(fn,
                                  IF Truthy(api_key) THEN api_key ELSE looked_up,
                                  "GET", [k \in {} |-> None])>>
    /\ outcome' = NoOutcome
    /\ result' = Unset
    /\ returned' = Unset
    /\ exc' = "none"
    /\ log' = <<>>
    /\ ncalls' = ncalls + 1
    /\ UNCHANGED cfg

\* The request in flight ends with out; _query classifies it and, under
\* returner, _post_message and returner hand the result on.
Complete(out, py) ==
    LET q == QueryOutcome(function, out, py)
    IN  /\ pc = "awaiting"
        /\ outcome' = out
        /\ IF q.raises
           THEN /\ pc' = "raised"
                /\ exc' = q.exc
                /\ UNCHANGED <<result, returned>>
           ELSE /\ pc' = "done"
                /\ result' = q.value
                /\ returned' = IF caller = "returner"
                               THEN PostResult(q.value)
                               ELSE Unset
                /\ UNCHANGED exc
        /\ UNCHANGED <<cfg, caller, ret, options, function, requests, log,
                       ncalls>>

\* The request fails in transport.
RequestFails == \E out \in Failures, py \in PyVersions : Complete(out, py)

\* The endpoint answers.
RequestAnswered == \E out \in Responses, py \in PyVersions : Complete(out, py)

ApiKeys == {None, Str("X")}

Next ==
    \/ \E r \in JobResults : ReturnerAbort(r)
    \/ \E r \in JobResults : ReturnerSend(r)
    \/ \E fn \in Functions : QueryNoKey(fn)
    \/ \E fn \in Functions, k \in ApiKeys, l \in ApiKeys : QuerySend(fn, k, l)
    \/ RequestFails
    \/ RequestAnswered

Spec == Init /\ [][Next]_vars

(***************************************************************************)
(* Properties.                                                             *)
(***************************************************************************)
\* returner has been entered for the current invocation and has ended.
ReturnerEnded == caller = "returner" /\ pc \in {"done", "raised"}

\* Every required option is set to a usable (truthy) value.
AllUsable == \A i \in 1..Len(Required) : Truthy(options[Required[i]])

\* Some required option is absent after resolution.
AnyAbsent == \E i \in 1..Len(Required) : options[Required[i]] = None

\* The body is a JSON object with an 'error' field.
HasErrorField(content) ==
    IsJsonObject(content) /\ "error" \in DOMAIN Json(content).obj

\* The endpoint answered 200 with a JSON object without 'error', or 204.
Succeeded(out) ==
    /\ out.kind = "response"
    /\ \/ out.status_code = NO_CONTENT
       \/ /\ out.status_code = OK
          /\ IsJsonObject(out.content)
          /\ ~HasErrorField(out.content)

\* C1: with all four options usable, when the one request ends in a
\* connection error or in a 200 (JSON object) or 204 answer, returner has
\* issued exactly one POST and returns true exactly when the answer was 200
\* without an 'error' field or 204, and false otherwise.
C1_TrueIffSuccess ==
    (/\ ReturnerEnded
     /\ pc = "done"
     /\ AllUsable
     /\ \/ outcome.kind = "ConnectionError"
        \/ /\ outcome.kind = "response"
           /\ outcome.status_code \in {OK, NO_CONTENT})
    => /\ Len(requests) = 1
       /\ requests[1].method = "POST"
       /\ returned = Bool(Succeeded(outcome))

C3_ConnectionErrorFalse ==
    (ReturnerEnded /\ AllUsable /\ outcome.kind = "ConnectionError")
    => /\ exc = "none"
       /\ returned = Bool(FALSE)

\* C4: with all four options usable, a 200 answer whose JSON body has an
\* 'error' field makes returner return false.
C4_RemoteErrorFalse ==
    (/\ ReturnerEnded
     /\ AllUsable
     /\ outcome.kind = "response"
     /\ outcome.status_code = OK
     /\ HasErrorField(outcome.content))
    => returned = Bool(FALSE)

\* C5: no exception leaves returner; a non-204 answer whose body is not
\* JSON, and a transport error other than a connection error, end in a
\* failure result, returner returning false.
C5_NoException ==
    ReturnerEnded
    => /\ pc /= "raised"
       /\ exc = "none"
       /\ (\/ outcome.kind \notin {"none", "response", "ConnectionError"}
           \/ /\ outcome.kind = "response"
              /\ outcome.status_code /= NO_CONTENT
              /\ Json(outcome.content).raises)
          => returned = Bool(FALSE)

\* The text the claim gives for a job result: the five lines in order, each
\* ended by CRLF, between two fences of three backquotes.
C6_Text(r) ==
    Fence
    \o "id: " \o PyStr(r.id) \o "\r\n"
    \o "function: " \o PyStr(r.fun) \o "\r\n"
    \o "function args: " \o PyStr(r.fun_args) \o "\r\n"
    \o "jid: " \o PyStr(r.jid) \o "\r\n"
    \o "return: " \o Pformat(r.return) \o "\r\n"
    \o Fence

C6_ExampleJob ==
    /\ ret.id = Str("m1")
    /\ ret.fun = Str("test.ping")
    /\ ret.fun_args = EmptyList
    /\ ret.jid = Str("J1")
    /\ ret.return = Bool(TRUE)

C6_ExampleText ==
    Fence
    \o "id: m1\r\nfunction: test.ping\r\nfunction args: []\r\njid: J1\r\nreturn: True\r\n"
    \o Fence

\* C6: the request returner issues is the only one, a POST to
\* https://slack.com/api/chat.postMessage with token = the resolved api_key
\* and data exactly channel, username, as_user (the resolved options) and
\* text, the five CRLF-ended lines between two fences; for the job m1 /
\* test.ping / [] / J1 / True the text is the literal one.
C6_RequestShape ==
    (caller = "returner" /\ requests /= <<>>)
    => /\ Len(requests) = 1
       /\ requests[1].method = "POST"
       /\ requests[1].url.origin = "https://slack.com"
       /\ requests[1].url.segs = <<"api", "chat.postMessage">>
       /\ requests[1].params = [token |-> options.api_key]
       /\ DOMAIN requests[1].data = {"channel", "username", "as_user", "text"}
       /\ requests[1].data.channel = options.channel
       /\ requests[1].data.username = options.username
       /\ requests[1].data.as_user = options.as_user
       /\ requests[1].data.text = C6_Text(ret)
       /\ C6_ExampleJob => requests[1].data.text = C6_ExampleText

C6_Witness ==
    /\ caller = "returner"
    /\ pc = "awaiting"
    /\ Len(requests) = 1
    /\ C6_ExampleJob
    /\ requests[1].data.text = C6_ExampleText
    /\ requests[1].params.token = Str("X")

\* The selected alternative block and the profile it references both supply
\* api_key.
C7_BothSupplyKey ==
    /\ ret.ret_config /= None
    /\ cfg.alternative.api_key /= None
    /\ cfg.alternative.profile = Str("slack_profile")
    /\ cfg.slack_profile.api_key /= None

\* No layer supplies channel.
C7_NoChannel ==
    /\ cfg.primary.channel = None
    /\ ret.ret_config /= None => cfg.alternative.channel = None

\* C7: when the selected alternative block and the profile it references
\* both supply api_key, the resolved api_key is the alternative block's;
\* when no layer supplies channel, the resolved channel is "#general".
C7_Resolution ==
    caller = "returner"
    => /\ C7_BothSupplyKey => options.api_key = cfg.alternative.api_key
       /\ C7_NoChannel => options.channel = Str("#general")

C7_Witness ==
    /\ caller = "returner"
    /\ C7_BothSupplyKey
    /\ C7_NoChannel
    /\ cfg.primary.api_key = Str("X")
    /\ cfg.slack_profile.api_key = Str("P")
    /\ options.api_key = Str("A")
    /\ options.channel = Str("#general")

\* The resource path and the payload field the claim gives per function.
C8_Path(fn) ==
    CASE fn = "rooms" -> "channels.list"
      [] fn = "users" -> "users.list"
      [] fn = "message" -> "chat.postMessage"

C8_Payload(fn) ==
    CASE fn = "rooms" -> "channels"
      [] fn = "users" -> "members"
      [] fn = "message" -> "channel"

\* C8: for rooms, users and message, _query requests channels.list,
\* users.list and chat.postMessage under /api/; on a 200 answer with a JSON
\* object it returns a failure result carrying the 'error' value when the
\* body has one, and otherwise a success result carrying the payload field
\* (channels, members, channel) of the body.
C8_QueryOk ==
    /\ requests /= <<>>
       => requests[1].url = [origin |-> "https://slack.com",
                             segs |-> <<"api", C8_Path(function)>>]
    /\ (/\ pc \in {"done", "raised"}
        /\ outcome.kind = "response"
        /\ outcome.status_code = OK
        /\ IsJsonObject(outcome.content))
       => /\ pc = "done"
          /\ IF HasErrorField(outcome.content)
             THEN result = [t |-> "dict", res |-> FALSE,
                            message |-> Json(outcome.content).obj["error"]]
             ELSE result = [t |-> "dict", res |-> TRUE,
                            message |-> Get(Json(outcome.content).obj,
                                            C8_Payload(function))]

C8_Witness ==
    /\ caller = "_query"
    /\ pc = "done"
    /\ function = "rooms"
    /\ outcome.status_code = OK
    /\ outcome.content = <<"{", "channels", "c1", "}">>
    /\ requests[1].url.segs = <<"api", "channels.list">>
    /\ result = [t |-> "dict", res |-> TRUE, message |-> Str("c1")]

\* C9: on an answer whose status is neither 200 nor 204, _query returns a
\* failure result carrying the 'error' value when the JSON body has an
\* 'error' field, and what it returns otherwise is a success result
\* carrying the raw body.
C9_OtherStatus ==
    (/\ pc \in {"done", "raised"}
     /\ outcome.kind = "response"
     /\ outcome.status_code \notin {OK, NO_CONTENT})
    => IF HasErrorField(outcome.content)
       THEN /\ pc = "done"
            /\ result = [t |-> "dict", res |-> FALSE,
                          message |-> Json(outcome.content).obj["error"]]
       ELSE pc = "done"
            => /\ result.t = "dict"
               /\ result.res = TRUE
               /\ result.message.t = "response"
               /\ result.message.r.content = outcome.content

\* The first of channel, username, as_user, api_key whose resolved value is
\* falsy (None, false or empty), the empty name when all are truthy.
C10_FirstFalsy ==
    IF ~Truthy(options.channel) THEN "channel"
    ELSE IF ~Truthy(options.username) THEN "username"
    ELSE IF ~Truthy(options.as_user) THEN "as_user"
    ELSE IF ~Truthy(options.api_key) THEN "api_key"
    ELSE "none"

\* C10: the required options are tested for truthiness in the order
\* channel, username, as_user, api_key: when one is falsy (as_user false
\* included) returner logs the first such option, issues no request and
\* returns None.
C10_FalsyAborts ==
    (caller = "returner" /\ C10_FirstFalsy /= "none")
    => /\ pc = "done"
       /\ requests = <<>>
       /\ returned = None
       /\ log = <<"slack." \o C10_FirstFalsy \o " not defined in salt config">>

C10_Witness ==
    /\ caller = "returner"
    /\ pc = "done"
    /\ options.channel = Str("#general")
    /\ options.username = Str("bot")
    /\ options.as_user = Bool(FALSE)
    /\ options.api_key = Str("X")
    /\ requests = <<>>
    /\ returned = None
    /\ log = <<"slack.as_user not defined in salt config">>

====
